---- MODULE Spec2Model ----
(***************************************************************************)
(* A model of pennylane/optimize/rotosolve.py (RotosolveOptimizer) and of  *)
(* pennylane/qnn.py (KerasLayer).                                          *)
(*                                                                         *)
(* Angles are integers in units of pi/8.  An even angle u is exactly       *)
(* u*pi/8 (a multiple of pi/4); an odd angle u is some real strictly       *)
(* between (u-1)*pi/8 and (u+1)*pi/8.  Negation and the addition of an     *)
(* even angle are exact on this representation, and so is the comparison   *)
(* with an even angle such as -pi.                                         *)
(*                                                                         *)
(* Objective values are the reals p + q*sqrt(2), written <<p, q>>, which   *)
(* hold the integers and 2*sin of every multiple of pi/4.  Arithmetic is   *)
(* real arithmetic: floating-point rounding, signed zeros and non-finite   *)
(* values are not modelled.                                                *)
(***************************************************************************)
EXTENDS Integers, Sequences, FiniteSets, TLC

VARIABLES pc, fn, arg, heap, x, d, H_0, H_p, H_m, log, entry, produced,
          thrown, outcome, sweeps, used, prev,
          kpc, qnode, kwargs, layer, qnode_weights, kerr, kout

(* the optimizer and its observer *)
rvars == <<pc, fn, arg, heap, x, d, H_0, H_p, H_m, log, entry, produced,
           thrown, outcome, sweeps, used, prev>>

(* the Keras layer *)
kvars == <<kpc, qnode, kwargs, layer, qnode_weights, kerr, kout>>

vars == <<rvars, kvars>>

(* ------------------------------ bounds -------------------------------- *)
MaxDim == 2
MaxSweeps == 2
MaxEvals == 12
MaxParams == 3
MaxBatch == 2

(* np.pi, in units of pi/8 *)
PiU == 8

InputAngles == {-4, 0, 8, 12}
ValRange == 0 .. 1
TableRange == -2 .. 2
Amps == {-1, 0, 1}
Phases == {0, 4, 6}
Errors == {"ValueError", "RuntimeError"}

IsEven(u) == u % 2 = 0

RECURSIVE VectorsOfLen(_)
VectorsOfLen(n) ==
  IF n = 0 THEN {<< >>}
  ELSE {Append(v, a) : v \in VectorsOfLen(n - 1), a \in InputAngles}

Vectors == UNION {VectorsOfLen(n) : n \in 0 .. MaxDim}

(* ------------------------- real arithmetic ---------------------------- *)
Zero == <<0, 0>>
VAdd(a, b) == <<a[1] + b[1], a[2] + b[2]>>
VSub(a, b) == <<a[1] - b[1], a[2] - b[2]>>
VScale(k, a) == <<k * a[1], k * a[2]>>

(* the sign of p + q*sqrt(2) *)
VSign(a) ==
  LET p == a[1]
      q == a[2]
  IN  IF p = 0 /\ q = 0 THEN 0
      ELSE IF p >= 0 /\ q >= 0 THEN 1
      ELSE IF p <= 0 /\ q <= 0 THEN -1
      ELSE IF p > 0 THEN (IF p * p > 2 * q * q THEN 1 ELSE -1)
      ELSE (IF 2 * q * q > p * p THEN 1 ELSE -1)

VAbs(a) == VScale(VSign(a), a)
VLeq(a, b) == VSign(VSub(b, a)) >= 0

(* an arctan2 with values in [0, 2*pi) *)
arctan2Positive(y, x0) ==
  LET sy == VSign(y)
      sx == VSign(x0)
      c == VSign(VSub(VAbs(y), VAbs(x0)))
      a == IF sy = 0 THEN (IF sx < 0 THEN PiU ELSE 0)
           ELSE IF sx = 0 THEN sy * (PiU \div 2)
           ELSE IF sx > 0 THEN sy * (2 + c)
           ELSE sy * (6 - c)
  IN  IF a < 0 THEN a + 2 * PiU ELSE a

(* an arctan2 that is pi on the whole closed negative axis, the origin
   included *)
arctan2PiAtOrigin(y, x0) ==
  LET sy == VSign(y)
      sx == VSign(x0)
      c == VSign(VSub(VAbs(y), VAbs(x0)))
  IN  IF sy = 0 THEN (IF sx <= 0 THEN PiU ELSE 0)
      ELSE IF sx = 0 THEN sy * (PiU \div 2)
      ELSE IF sx > 0 THEN sy * (2 + c)
      ELSE sy * (6 - c)

(* np.arctan2(y, x0), a value of (-pi, pi] *)
arctan2(y, x0) ==
  LET sy == VSign(y)
      sx == VSign(x0)
      c == VSign(VSub(VAbs(y), VAbs(x0)))
  IN  IF sy = 0 THEN (IF sx < 0 THEN PiU ELSE 0)
      ELSE IF sx = 0 THEN sy * (PiU \div 2)
      ELSE IF sx > 0 THEN sy * (2 + c)
      ELSE sy * (6 - c)

(* ---------------------------- objectives ------------------------------ *)
(* 2*sin(u*pi/8) for an even angle u *)
Sin2(u) ==
  LET r == u % 16
  IN  CASE r = 0 -> <<0, 0>>
        [] r = 2 -> <<0, 1>>
        [] r = 4 -> <<2, 0>>
        [] r = 6 -> <<0, 1>>
        [] r = 8 -> <<0, 0>>
        [] r = 10 -> <<0, -1>>
        [] r = 12 -> <<-2, 0>>
        [] r = 14 -> <<0, -1>>

Vals == {<<n, 0>> : n \in ValRange}
TableVals == {<<n, 0>> : n \in TableRange}
ProbeAngles == {0, PiU \div 2, -(PiU \div 2)}

RECURSIVE SinSum(_, _, _)
SinSum(f, vec, j) ==
  IF j = 0 THEN Zero
  ELSE VAdd(SinSum(f, vec, j - 1), VScale(f.A[j], Sin2(vec[j] + f.phi[j])))

(* the separable sinusoid  sum_j A_j * 2*sin(x_j + phi_j) *)
SinObjective(f, vec) == SinSum(f, vec, Len(vec))

(* an objective that may return any value, raise, or return something that
   is no number, at every call *)
AnyObjectives == {[kind |-> "any", n |-> 0, A |-> << >>, phi |-> << >>,
                   T |-> << >>]}

RECURSIVE SeqsOver(_, _)
SeqsOver(S, n) ==
  IF n = 0 THEN {<< >>}
  ELSE {Append(s, a) : s \in SeqsOver(S, n - 1), a \in S}

SinObjectives ==
  UNION {{[kind |-> "sin", n |-> n, A |-> A, phi |-> ph,
           T |-> << >>] : A \in SeqsOver(Amps, n), ph \in SeqsOver(Phases, n)}
         : n \in 1 .. MaxDim}

(* an arbitrary deterministic function of one angle, given by its values
   at the three points where a one-dimensional sweep evaluates it *)
TableObjectives ==
  {[kind |-> "table", n |-> 1, A |-> << >>, phi |-> << >>,
    T |-> <<t0, tp, tm>>] : t0 \in TableVals, tp \in TableVals, tm \in TableVals}

TableAt(f, u) ==
  IF u = 0 THEN f.T[1] ELSE IF u = PiU \div 2 THEN f.T[2] ELSE f.T[3]

Objectives == AnyObjectives \cup SinObjectives \cup TableObjectives

Deterministic(f) == f.kind # "any"

(* what one call objective_fn(vec) can do *)
ObjectiveResults(f, vec) ==
  CASE f.kind = "sin" ->
         {[tag |-> "val", v |-> SinObjective(f, vec), err |-> ""]}
    [] f.kind = "table" ->
         {[tag |-> "val", v |-> TableAt(f, vec[1]), err |-> ""]}
    [] f.kind = "any" ->
         {[tag |-> "val", v |-> v, err |-> ""] : v \in Vals}
           \cup {[tag |-> "raise", v |-> Zero, err |-> e] : e \in Errors}
           \cup {[tag |-> "nonnumeric", v |-> Zero, err |-> ""]}

(* the objective accepts the vector: right length, and a sinusoid is only
   evaluated at exact angles *)
Accepts(f, vec) ==
  CASE f.kind = "sin" -> Len(vec) = f.n /\ \A j \in 1 .. Len(vec) : IsEven(vec[j])
    [] f.kind = "table" -> Len(vec) = 1
    [] f.kind = "any" -> TRUE

(* ----------------------------- rotosolve ------------------------------ *)
(* pc: "idle" before the first call; "H_0", "H_p", "H_m" before the
   evaluation of that name in _rotosolve; "a" before the update; "return"
   at step's return statement; "returned" and "raised" once step has ended.
   heap: the vectors, by reference: "caller" is the caller's own sequence,
   "fresh" the array step makes of a number.
   log, entry, produced, thrown, prev: what an observer of the call sees:
   the arguments of every call of objective_fn, the vector on entry, the
   values the sub-steps assigned, the exception in flight, and the last
   completed call of a deterministic objective. *)
NoArg == [kind |-> "none", ref |-> "none", val |-> 0]
NoOutcome == [kind |-> "none", ref |-> "none", err |-> ""]
NoThrown == [by |-> "none", at |-> "none", err |-> ""]
NoPrev == [scalar |-> FALSE, entry |-> << >>, result |-> << >>, probes |-> << >>,
           valid |-> FALSE]

(* np.ndim(x) that takes a number for a sequence *)
ndimOfSequence(a) == 1

(* np.ndim(x) *)
ndim(a) == IF a.kind = "scalar" THEN 0 ELSE 1

(* x = np.array(x): a copy, also of a sequence *)
NormalizeCopy(a, h) ==
  IF ndim(a) = 0
  THEN [ref |-> "fresh", heap |-> [h EXCEPT !["fresh"] = <<a.val>>]]
  ELSE [ref |-> "fresh", heap |-> [h EXCEPT !["fresh"] = h[a.ref]]]

(* if np.ndim(x) == 0: x = np.array([x]) -- the object x names afterwards
   and the heap that holds it *)
Normalize(a, h) ==
  IF ndim(a) = 0
  THEN [ref |-> "fresh", heap |-> [h EXCEPT !["fresh"] = <<a.val>>]]
  ELSE [ref |-> a.ref, heap |-> h]

(* x[d + 1] = theta, wrapping round at the end *)
insertOffByOne(vec, i, theta) == [vec EXCEPT ![((i + 1) % Len(vec)) + 1] = theta]

(* x[d] += theta: the probe angle added to the value x[d] holds *)
insertAdd(vec, i, theta) == [vec EXCEPT ![i + 1] = @ + theta]

(* insert(x, d, theta): x[d] = theta, with d counted from 0 *)
insert(vec, i, theta) == [vec EXCEPT ![i + 1] = theta]

(* float(r): the number r holds, or a TypeError *)
float(r) == IF r.tag = "val" THEN [ok |-> TRUE, v |-> r.v, err |-> ""]
            ELSE [ok |-> FALSE, v |-> Zero, err |-> "TypeError"]

(* except Exception: raise RuntimeError("objective failed") *)
PropagateWrapped(e) == "OptimizerError"

(* an exception raised below step reaches step's caller as it is: neither
   step nor _rotosolve has a handler *)
Propagate(e) == e

(* a call answered from a cache when the argument was seen before *)
InvokeCached(lg, ref, vec) ==
  IF \E i \in 1 .. Len(lg) : lg[i].vec = vec
  THEN lg
  ELSE Append(lg, [ref |-> ref, vec |-> vec])

(* one more call of objective_fn, with the object ref holding vec *)
Invoke(lg, ref, vec) == Append(lg, [ref |-> ref, vec |-> vec])

(* arctan2 with its arguments in the other order *)
RawUpdateSwapped(h0, hp, hm) ==
  -(PiU \div 2) - arctan2(VSub(hp, hm), VSub(VSub(VScale(2, h0), hp), hm))

(* -pi/2 - a *)
RawUpdate(h0, hp, hm) ==
  -(PiU \div 2) - arctan2(VSub(VSub(VScale(2, h0), hp), hm), VSub(hp, hm))

(* if x[d] < -pi *)
WrapStrict(t) == IF t < -PiU THEN t + 2 * PiU ELSE t

(* no wrap at all *)
WrapNever(t) == t

(* if x[d] <= -pi: x[d] += 2*pi *)
Wrap(t) == IF t <= -PiU THEN t + 2 * PiU ELSE t

(* no call of step yet *)
RotosolveInit ==
  /\ pc = "idle"
  /\ arg = NoArg
  /\ heap = [r \in {"caller", "fresh"} |-> << >>]
  /\ x = "none"
  /\ d = 0
  /\ H_0 = Zero
  /\ H_p = Zero
  /\ H_m = Zero
  /\ log = << >>
  /\ entry = << >>
  /\ produced = << >>
  /\ thrown = NoThrown
  /\ outcome = NoOutcome
  /\ sweeps = 0
  /\ used = 0
  /\ prev = NoPrev

NoQNode == [sig |-> << >>, var_pos |-> FALSE, var_keyword |-> FALSE]
NoKwargs == [weight_shapes |-> << >>, input_dim |-> [iter |-> FALSE, n |-> 0, dims |-> << >>]]
NoLayer == [sig |-> << >>, input_arg |-> << >>, input_dim |-> 0, weight_shapes |-> << >>]

(* no KerasLayer yet *)
KerasInit ==
  /\ kpc = "new"
  /\ qnode = NoQNode
  /\ kwargs = NoKwargs
  /\ layer = NoLayer
  /\ qnode_weights = << >>
  /\ kerr = ""
  /\ kout = << >>

Init ==
  /\ fn \in Objectives
  /\ RotosolveInit
  /\ KerasInit

CanCall(vec) ==
  /\ pc \in {"idle", "returned", "raised"}
  /\ sweeps < MaxSweeps
  /\ used + 3 * Len(vec) <= MaxEvals
  /\ Accepts(fn, vec)

(* step(objective_fn, x) up to the first evaluation: the normalisation and
   the start of the loop; enumerate(x) raises a TypeError if x is still a
   number *)
Enter(a, h) ==
  LET nz == Normalize(a, h)
  IN  /\ arg' = a
      /\ heap' = nz.heap
      /\ x' = nz.ref
      /\ d' = 0
      /\ H_0' = Zero
      /\ H_p' = Zero
      /\ H_m' = Zero
      /\ log' = << >>
      /\ produced' = << >>
      /\ sweeps' = sweeps + 1
      /\ IF nz.ref = "none"
         THEN /\ pc' = "raised"
              /\ entry' = << >>
              /\ thrown' = [by |-> "enumerate", at |-> "none", err |-> "TypeError"]
              /\ outcome' = [kind |-> "raise", ref |-> "none",
                             err |-> Propagate("TypeError")]
              /\ used' = used
         ELSE /\ pc' = IF Len(nz.heap[nz.ref]) > 0 THEN "H_0" ELSE "return"
              /\ entry' = nz.heap[nz.ref]
              /\ thrown' = NoThrown
              /\ outcome' = NoOutcome
              /\ used' = used + 3 * Len(nz.heap[nz.ref])
      /\ UNCHANGED <<fn, prev>>
      /\ UNCHANGED kvars

(* step(objective_fn, s) with a number s *)
StepScalar ==
  \E s \in InputAngles :
    /\ CanCall(<<s>>)
    /\ Enter([kind |-> "scalar", ref |-> "none", val |-> s],
             [heap EXCEPT !["caller"] = << >>, !["fresh"] = << >>])

(* step(objective_fn, v) with a sequence v the caller has just built *)
StepSequence ==
  \E v \in Vectors :
    /\ CanCall(v)
    /\ Enter([kind |-> "seq", ref |-> "caller", val |-> 0],
             [heap EXCEPT !["caller"] = v, !["fresh"] = << >>])

(* step(objective_fn, x) with the vector the last call returned, which is
   from now on the caller's own vector *)
StepAgain ==
  /\ outcome.kind = "return"
  /\ CanCall(heap[outcome.ref])
  /\ Enter([kind |-> "seq", ref |-> "caller", val |-> 0],
           [heap EXCEPT !["caller"] = heap[outcome.ref], !["fresh"] = << >>])

(* a probe that puts the old x[d] back when the evaluation fails *)
ProbeRestoring(here, theta, next) ==
  /\ LET vec == insert(heap[x], d, theta)
         old == insert(heap[x], d, entry[d + 1])
     IN  /\ log' = Invoke(log, x, vec)
         /\ \E r \in ObjectiveResults(fn, vec) :
              IF r.tag = "raise"
              THEN /\ pc' = "raised"
                   /\ heap' = [heap EXCEPT ![x] = old]
                   /\ thrown' = [by |-> "objective", at |-> here, err |-> r.err]
                   /\ outcome' = [kind |-> "raise", ref |-> "none",
                                  err |-> Propagate(r.err)]
                   /\ UNCHANGED <<H_0, H_p, H_m>>
              ELSE LET h == float(r)
                   IN  IF h.ok
                       THEN /\ pc' = next
                            /\ heap' = [heap EXCEPT ![x] = vec]
                            /\ H_0' = IF here = "H_0" THEN h.v ELSE H_0
                            /\ H_p' = IF here = "H_p" THEN h.v ELSE H_p
                            /\ H_m' = IF here = "H_m" THEN h.v ELSE H_m
                            /\ UNCHANGED <<thrown, outcome>>
                       ELSE /\ pc' = "raised"
                            /\ heap' = [heap EXCEPT ![x] = old]
                            /\ thrown' = [by |-> "float", at |-> here, err |-> h.err]
                            /\ outcome' = [kind |-> "raise", ref |-> "none",
                                           err |-> Propagate(h.err)]
                            /\ UNCHANGED <<H_0, H_p, H_m>>
  /\ UNCHANGED <<fn, arg, x, d, entry, produced, sweeps, used, prev>>
  /\ UNCHANGED kvars

(* H = float(objective_fn(insert(x, d, theta))) *)
Probe(here, theta, next) ==
  /\ LET vec == insert(heap[x], d, theta)
     IN  /\ heap' = [heap EXCEPT ![x] = vec]
         /\ log' = Invoke(log, x, vec)
         /\ \E r \in ObjectiveResults(fn, vec) :
              IF r.tag = "raise"
              THEN /\ pc' = "raised"
                   /\ thrown' = [by |-> "objective", at |-> here, err |-> r.err]
                   /\ outcome' = [kind |-> "raise", ref |-> "none",
                                  err |-> Propagate(r.err)]
                   /\ UNCHANGED <<H_0, H_p, H_m>>
              ELSE LET h == float(r)
                   IN  IF h.ok
                       THEN /\ pc' = next
                            /\ H_0' = IF here = "H_0" THEN h.v ELSE H_0
                            /\ H_p' = IF here = "H_p" THEN h.v ELSE H_p
                            /\ H_m' = IF here = "H_m" THEN h.v ELSE H_m
                            /\ UNCHANGED <<thrown, outcome>>
                       ELSE /\ pc' = "raised"
                            /\ thrown' = [by |-> "float", at |-> here, err |-> h.err]
                            /\ outcome' = [kind |-> "raise", ref |-> "none",
                                           err |-> Propagate(h.err)]
                            /\ UNCHANGED <<H_0, H_p, H_m>>
  /\ UNCHANGED <<fn, arg, x, d, entry, produced, sweeps, used, prev>>
  /\ UNCHANGED kvars

EvalH0 ==
  /\ pc = "H_0"
  /\ Probe("H_0", 0, "H_p")

EvalHp ==
  /\ pc = "H_p"
  /\ Probe("H_p", PiU \div 2, "H_m")

EvalHm ==
  /\ pc = "H_m"
  /\ Probe("H_m", -(PiU \div 2), "a")

(* a = arctan2(...); x[d] = -pi/2 - a; the wrap; return x; next d *)
Update ==
  /\ pc = "a"
  /\ LET t == Wrap(RawUpdate(H_0, H_p, H_m))
     IN  /\ heap' = [heap EXCEPT ![x] = insert(heap[x], d, t)]
         /\ produced' = Append(produced, t)
  /\ d' = d + 1
  /\ pc' = IF d + 1 < Len(heap[x]) THEN "H_0" ELSE "return"
  /\ H_0' = Zero
  /\ H_p' = Zero
  /\ H_m' = Zero
  /\ UNCHANGED <<fn, arg, x, log, entry, thrown, outcome, sweeps, used, prev>>
  /\ UNCHANGED kvars

(* return x *)
Return ==
  /\ pc = "return"
  /\ pc' = "returned"
  /\ outcome' = [kind |-> "return", ref |-> x, err |-> ""]
  /\ prev' = IF Deterministic(fn)
             THEN [scalar |-> arg.kind = "scalar", entry |-> entry,
                   result |-> heap[x], probes |-> [i \in 1 .. Len(log) |-> log[i].vec],
                   valid |-> TRUE]
             ELSE prev
  /\ UNCHANGED <<fn, arg, heap, x, d, H_0, H_p, H_m, log, entry, produced,
                 thrown, sweeps, used>>
  /\ UNCHANGED kvars

Next ==
  \/ StepScalar
  \/ StepSequence
  \/ StepAgain
  \/ EvalH0
  \/ EvalHp
  \/ EvalHm
  \/ Update
  \/ Return

Spec == Init /\ [][Next]_vars

(* ------------------------------ KerasLayer ---------------------------- *)
(* A name is the sequence of its characters.  A signature is the sequence
   of the QNode's parameters, each with its name and whether it has a
   default; a parameter without a default that follows one with a default
   is keyword-only, as Python requires.  The QNode's outputs, output_dim
   and the reshape of call are not modelled: the result of call is, for
   every batch element, the value bound to each parameter. *)
W1 == <<"w", "1">>
W2 == <<"w", "2">>
INPUTS == <<"i", "n", "p", "u", "t", "s">>
XIN == <<"x">>
WeightNames == {W1, W2}
InputNames == {INPUTS, XIN}
Names == WeightNames \cup InputNames
Params == [name : Names, default : BOOLEAN]

SigNames(sig) == {sig[i].name : i \in 1 .. Len(sig)}

Sigs ==
  {sg \in UNION {SeqsOver(Params, n) : n \in 0 .. MaxParams} :
     Cardinality(SigNames(sg)) = Len(sg)}

(* a size: the number n, or the tuple dims *)
Shapes == {[iter |-> FALSE, n |-> 1, dims |-> << >>],
           [iter |-> TRUE, n |-> 0, dims |-> <<3>>]}
WeightShapeDicts == UNION {[K -> Shapes] : K \in SUBSET Names}

(* input_dim: None, or the list [2] *)
InputDims == {[iter |-> FALSE, n |-> 0, dims |-> << >>],
              [iter |-> TRUE, n |-> 0, dims |-> <<2>>]}
Widths == {2, 3}
VarFlags == {<<FALSE, FALSE>>, <<TRUE, FALSE>>, <<FALSE, TRUE>>}

ErrSingleDefault == "TypeError: Conversion to a Keras layer requires a QNode with a single default argument"
ErrInputInShapes == "ValueError: Input argument dimension should not be specified in weight_shapes"
ErrMustSpecify == "ValueError: Must specify a shape for every non-input parameter in the QNode"
ErrVarPos == "TypeError: Cannot have a variable number of positional arguments"
ErrVarKeyword == "TypeError: Cannot have a variable number of keyword arguments"
ErrInputSize == "ValueError: QNode can only accept inputs of size"
ErrCall == "TypeError: QNode call"

(* [name for name, sig in self.sig.items() if sig.par.default != empty] *)
RECURSIVE Defaults(_)
Defaults(sig) ==
  IF sig = << >> THEN << >>
  ELSE IF Head(sig).default THEN <<Head(sig).name>> \o Defaults(Tail(sig))
  ELSE Defaults(Tail(sig))

(* set(s) of a string s: its characters, each a string of length 1 *)
SetOfString(s) == {<<s[i]>> : i \in 1 .. Len(s)}

(* tuple(size) if isinstance(size, Iterable) else (size,) *)
ShapeTuple(size) == IF size.iter THEN size.dims ELSE <<size.n>>

(* input_dim[0] if isinstance(input_dim, Iterable) else input_dim; None is 0 *)
FirstOrSelf(dim) == IF dim.iter THEN dim.dims[1] ELSE dim.n

(* the checks of __init__, in order: the error raised, or "" *)
InitError(q, ws) ==
  LET defaults == Defaults(q.sig)
  IN  IF Len(defaults) # 1 THEN ErrSingleDefault
      ELSE IF defaults[1] \in DOMAIN ws THEN ErrInputInShapes
      ELSE IF (DOMAIN ws) \cup SetOfString(defaults[1]) # SigNames(q.sig)
        THEN ErrMustSpecify
      ELSE IF q.var_pos THEN ErrVarPos
      ELSE IF q.var_keyword THEN ErrVarKeyword
      ELSE ""

(* the QNodes and constructor arguments a layer is made of *)
QNodes == {[sig |-> sg, var_pos |-> vf[1], var_keyword |-> vf[2]] :
             sg \in Sigs, vf \in VarFlags}
Kwargs == [weight_shapes : WeightShapeDicts, input_dim : InputDims]

(* KerasLayer(qnode, weight_shapes, output_dim, input_dim) *)
KerasLayerInit ==
  LET ws == kwargs.weight_shapes
      e == InitError(qnode, ws)
  IN  /\ kpc = "new"
      /\ kerr' = e
      /\ IF e # ""
         THEN /\ kpc' = "init_failed"
              /\ layer' = NoLayer
         ELSE /\ kpc' = "constructed"
              /\ layer' = [sig |-> qnode.sig,
                           input_arg |-> Defaults(qnode.sig)[1],
                           input_dim |-> FirstOrSelf(kwargs.input_dim),
                           weight_shapes |-> [w \in DOMAIN ws |-> ShapeTuple(ws[w])]]
      /\ qnode_weights' = << >>
      /\ UNCHANGED <<qnode, kwargs, kout>>
      /\ UNCHANGED rvars

(* build(input_shape), where input_shape[-1] = width *)
Build ==
  \E width \in Widths :
    /\ kpc = "constructed"
    /\ IF layer.input_dim # 0 /\ width # layer.input_dim
       THEN /\ kpc' = "build_failed"
            /\ kerr' = ErrInputSize
            /\ UNCHANGED qnode_weights
       ELSE /\ kpc' = "built"
            /\ qnode_weights' = [w \in DOMAIN layer.weight_shapes |->
                                   [name |-> w, shape |-> layer.weight_shapes[w]]]
            /\ UNCHANGED kerr
    /\ UNCHANGED <<qnode, kwargs, layer, kout>>
    /\ UNCHANGED rvars

NoValue == [kind |-> "unbound", name |-> << >>, elem |-> FALSE, idx |-> 0]
DefaultValue == [kind |-> "default", name |-> << >>, elem |-> FALSE, idx |-> 0]
WeightValue(w) == [kind |-> "weight", name |-> w.name, elem |-> FALSE, idx |-> 0]
(* w[0] *)
WeightElem(w) == [kind |-> "weight", name |-> w.name, elem |-> TRUE, idx |-> 0]
BatchElem(i) == [kind |-> "input", name |-> << >>, elem |-> FALSE, idx |-> i]

(* for arg in self.sig: if arg is not self.input_arg: partial(qnode, ...):
   the positional arguments, in the order of the signature *)
RECURSIVE PartialArgs(_, _, _)
PartialArgs(sig, input_arg, weights) ==
  IF sig = << >> THEN << >>
  ELSE IF Head(sig).name # input_arg
    THEN <<IF weights[Head(sig).name].shape = <<1>>
           THEN WeightElem(weights[Head(sig).name])
           ELSE WeightValue(weights[Head(sig).name])>>
           \o PartialArgs(Tail(sig), input_arg, weights)
  ELSE PartialArgs(Tail(sig), input_arg, weights)

(* the parameters that take positional arguments: those before the first
   keyword-only one *)
RECURSIVE PositionalCount(_, _)
PositionalCount(sig, seenDefault) ==
  IF sig = << >> THEN 0
  ELSE IF seenDefault /\ ~Head(sig).default THEN 0
  ELSE 1 + PositionalCount(Tail(sig), seenDefault \/ Head(sig).default)

(* the call of qnode with the positional arguments pos and the keyword
   argument kw = val: the value bound to each parameter, or a TypeError *)
QNodeCall(sig, pos, kw, val) ==
  IF \/ Len(pos) > PositionalCount(sig, FALSE)
     \/ \E i \in 1 .. Len(pos) : sig[i].name = kw
     \/ kw \notin SigNames(sig)
     \/ \E i \in Len(pos) + 1 .. Len(sig) : sig[i].name # kw /\ ~sig[i].default
  THEN [ok |-> FALSE, bound |-> << >>]
  ELSE [ok |-> TRUE,
        bound |-> [i \in 1 .. Len(sig) |->
                     IF i <= Len(pos) THEN pos[i]
                     ELSE IF sig[i].name = kw THEN val
                     ELSE DefaultValue]]

(* call(inputs), with a batch of n inputs *)
Call ==
  \E n \in 1 .. MaxBatch :
    LET pos == PartialArgs(layer.sig, layer.input_arg, qnode_weights)
        outs == [i \in 1 .. n |-> QNodeCall(layer.sig, pos, layer.input_arg, BatchElem(i))]
    IN  /\ kpc = "built"
        /\ IF \E i \in 1 .. n : ~outs[i].ok
           THEN /\ kpc' = "call_failed"
                /\ kerr' = ErrCall
                /\ UNCHANGED kout
           ELSE /\ kpc' = "called"
                /\ kout' = [i \in 1 .. n |-> outs[i].bound]
                /\ UNCHANGED kerr
        /\ UNCHANGED <<qnode, kwargs, layer, qnode_weights>>
        /\ UNCHANGED rvars

NextQnn ==
  \/ KerasLayerInit
  \/ Build
  \/ Call

InitQnn ==
  /\ fn \in AnyObjectives
  /\ RotosolveInit
  /\ kpc = "new"
  /\ qnode \in QNodes
  /\ kwargs \in Kwargs
  /\ layer = NoLayer
  /\ qnode_weights = << >>
  /\ kerr = ""
  /\ kout = << >>

SpecQnn == InitQnn /\ [][NextQnn]_vars

(* --------------------------- claims: rotosolve ------------------------ *)
GridAngles == {2 * k : k \in -PiU .. PiU}
InRange(u) == -PiU < u /\ u <= PiU
ProbeNo(p) == CASE p = "H_0" -> 0 [] p = "H_p" -> 1 [] p = "H_m" -> 2 [] p = "a" -> 3
ProbeAngle(k) == CASE k = 0 -> 0 [] k = 1 -> PiU \div 2 [] k = 2 -> -(PiU \div 2)
LogVecs == [i \in 1 .. Len(log) |-> log[i].vec]

(* the objective f is no greater at vec than at any vector that differs
   from vec in coordinate j (from 0) by an angle of the grid *)
AtMinimum(f, vec, j) ==
  \A th \in GridAngles :
    VLeq(SinObjective(f, vec), SinObjective(f, insert(vec, j, th)))

GlobalOptimum(f, vec) == \A j \in 1 .. Len(vec) : AtMinimum(f, vec, j - 1)

(* C1: when the objective is sinusoidal along coordinate d, the value the
   sub-step for d leaves in x[d] minimises the objective over the grid of
   angles from -2*pi to 2*pi, the other coordinates fixed. *)
C1_ClosedForm ==
  (fn.kind = "sin" /\ pc \in {"H_0", "return"} /\ d >= 1)
    => AtMinimum(fn, heap[x], d - 1)

C1_Witness ==
  /\ fn.kind = "sin"
  /\ pc = "return"
  /\ d = 2
  /\ fn.A[1] > 0
  /\ fn.A[2] < 0
  /\ fn.phi[2] = 6

(* C2: every coordinate of a returned vector lies in (-pi, pi], after any
   call of a run; and the update stores raw + 2*pi if raw <= -pi, else
   raw. *)
C2_Range ==
  /\ [](pc = "returned"
          => \A j \in 1 .. Len(heap[outcome.ref]) : InRange(heap[outcome.ref][j]))
  /\ [][pc = "a"
          => LET raw == RawUpdate(H_0, H_p, H_m)
             IN  heap'[x][d + 1] = IF raw <= -PiU THEN raw + 2 * PiU ELSE raw]_vars

C2_Witness ==
  /\ pc = "returned"
  /\ sweeps = 2
  /\ Len(heap[outcome.ref]) = 2
  /\ heap[outcome.ref][1] = PiU
  /\ heap[outcome.ref][2] = -(PiU \div 2)

(* C3: objective_fn is called three times for each coordinate, 3*D times
   when step returns, also when two calls have the same argument; on an
   empty vector it is not called and the vector is returned as it was. *)
C3_EvalCount ==
  /\ pc \in {"H_0", "H_p", "H_m", "a"} => Len(log) = 3 * d + ProbeNo(pc)
  /\ pc \in {"return", "returned"} => Len(log) = 3 * Len(heap[x])
  /\ (pc = "returned" /\ entry = << >>) => (log = << >> /\ heap[outcome.ref] = << >>)

C3_Witness ==
  /\ pc = "returned"
  /\ Len(heap[x]) = 2
  /\ \E i \in 1 .. Len(log) : \E j \in 1 .. Len(log) : i < j /\ log[i].vec = log[j].vec

(* C4: the i-th call of objective_fn in a sweep is the probe (i-1) mod 3 of
   coordinate (i-1) div 3: its argument holds the probe angle there, the
   values this sweep's sub-steps produced before it, and the entry values
   after it; at the return every coordinate has been produced once. *)
C4_Sweep ==
  /\ \A i \in 1 .. Len(log) :
       LET c == (i - 1) \div 3
           k == (i - 1) % 3
           vec == log[i].vec
       IN  /\ Len(vec) = Len(entry)
           /\ c < Len(vec)
           /\ Len(produced) >= c
           /\ vec[c + 1] = ProbeAngle(k)
           /\ \A j \in 1 .. c : vec[j] = produced[j]
           /\ \A j \in c + 2 .. Len(vec) : vec[j] = entry[j]
  /\ pc \in {"return", "returned"}
       => (Len(produced) = Len(entry) /\ heap[x] = produced)

C4_Witness ==
  /\ pc = "a"
  /\ d = 1
  /\ Len(entry) = 2
  /\ produced[1] # entry[1]
  /\ entry[2] # ProbeAngle(2)

(* C5: with a deterministic objective, a call with the number s and a call
   with the sequence [s] issue the same probes and come to the same vector
   of length 1; the call with a number does not fail. *)
C5_Scalar ==
  /\ (Deterministic(fn) /\ arg.kind = "scalar") => pc # "raised"
  /\ (/\ pc = "return"
      /\ Deterministic(fn)
      /\ prev.valid
      /\ prev.entry = entry
      /\ prev.scalar # (arg.kind = "scalar"))
       => (/\ Len(heap[x]) = 1
           /\ heap[x] = prev.result
           /\ LogVecs = prev.probes)

C5_Witness ==
  /\ pc = "return"
  /\ fn.kind = "table"
  /\ prev.valid
  /\ prev.scalar
  /\ arg.kind = "seq"
  /\ prev.entry = entry
  /\ heap[x] = <<PiU>>

(* a sinusoid along every coordinate: no amplitude is zero *)
Sinusoidal(f) == f.kind = "sin" /\ \A j \in 1 .. f.n : f.A[j] # 0

(* C6 as claimed: a vector that is a global optimum of a separable
   sinusoid in every coordinate is returned unchanged. *)
C6_Original ==
  (Sinusoidal(fn) /\ pc = "returned" /\ GlobalOptimum(fn, entry))
    => heap[outcome.ref] = entry

(* C6, amended: a vector whose coordinates all lie in (-pi, pi] and that is
   a global optimum of a separable sinusoid in every coordinate is
   returned unchanged. *)
C6_Idempotent ==
  (/\ Sinusoidal(fn)
   /\ pc = "returned"
   /\ GlobalOptimum(fn, entry)
   /\ \A j \in 1 .. Len(entry) : InRange(entry[j]))
    => heap[outcome.ref] = entry

C6_Witness ==
  /\ Sinusoidal(fn)
  /\ pc = "returned"
  /\ Len(entry) = 2
  /\ GlobalOptimum(fn, entry)
  /\ \A j \in 1 .. Len(entry) : InRange(entry[j])
  /\ entry[1] = PiU
  /\ fn.A[2] < 0
  /\ heap[outcome.ref] = entry

(* C7: an exception raised by objective_fn ends step with that exception,
   after exactly the calls up to the failing one; nothing is called after
   it within that step. *)
C7_Propagate ==
  /\ []((pc = "raised" /\ thrown.by = "objective")
          => (/\ outcome.kind = "raise"
              /\ outcome.err = thrown.err
              /\ Len(log) = 3 * d + ProbeNo(thrown.at) + 1))
  /\ [][(pc = "raised" /\ sweeps' = sweeps) => (log' = log /\ pc' = "raised")]_vars

C7_Witness ==
  /\ pc = "raised"
  /\ thrown.by = "objective"
  /\ thrown.at = "H_p"
  /\ d = 1
  /\ outcome.err = "ValueError"

(* C10: a sequence argument is the object every probe and update is
   written to, the object objective_fn is handed and the object returned;
   a number argument is left as it was and a fresh vector of length 1 is
   returned. *)
C10_Alias ==
  /\ (arg.kind = "seq" /\ pc \in {"H_p", "H_m", "a"})
       => (/\ x = arg.ref
           /\ log[Len(log)].ref = arg.ref
           /\ heap[arg.ref] = log[Len(log)].vec)
  /\ (arg.kind = "seq" /\ pc = "returned")
       => (/\ outcome.ref = arg.ref
           /\ heap[arg.ref] = produced
           /\ \A i \in 1 .. Len(log) : log[i].ref = arg.ref)
  /\ (arg.kind = "scalar" /\ pc = "returned")
       => (/\ outcome.ref = "fresh"
           /\ Len(heap[outcome.ref]) = 1
           /\ heap["caller"] = << >>
           /\ entry = <<arg.val>>)

C10_Witness ==
  /\ arg.kind = "seq"
  /\ pc = "returned"
  /\ Len(entry) = 2
  /\ heap[arg.ref] # entry
  /\ outcome.ref = "caller"

(* C11: the raw update -pi/2 - a lies in [-3*pi/2, pi/2] for every triple
   of probe values, so it never exceeds pi, and a coordinate greater than
   pi/2 is stored only when the raw update was at most -pi and 2*pi was
   added to it. *)
C11_RawRange ==
  [][pc = "a"
       => LET raw == RawUpdate(H_0, H_p, H_m)
              new == heap'[x][d + 1]
          IN  /\ -PiU - (PiU \div 2) <= raw
              /\ raw <= PiU \div 2
              /\ raw <= PiU
              /\ new > PiU \div 2 => (raw <= -PiU /\ new = raw + 2 * PiU)
              /\ new <= PiU]_vars

C11_Witness ==
  /\ pc = "returned"
  /\ fn.kind = "table"
  /\ RawUpdate(fn.T[1], fn.T[2], fn.T[3]) = -PiU - 1
  /\ heap[outcome.ref] = <<PiU - 1>>

(* C12: when an evaluation fails at a probe of coordinate d of a sequence
   argument, the caller's vector is left as the failing call found it: the
   coordinates before d hold the values this sweep assigned, coordinate d
   holds the angle of the failing probe, and the coordinates after d hold
   their values on entry. *)
C12_PartialUpdate ==
  (pc = "raised" /\ thrown.by \in {"objective", "float"} /\ arg.kind = "seq")
    => LET vec == heap[arg.ref]
       IN  /\ Len(vec) = Len(entry)
           /\ d < Len(vec)
           /\ Len(produced) = d
           /\ \A j \in 1 .. d : vec[j] = produced[j]
           /\ vec[d + 1] = ProbeAngle(ProbeNo(thrown.at))
           /\ \A j \in d + 2 .. Len(vec) : vec[j] = entry[j]
           /\ vec = log[Len(log)].vec

C12_Witness ==
  /\ pc = "raised"
  /\ thrown.by = "objective"
  /\ thrown.at = "H_m"
  /\ arg.kind = "seq"
  /\ d = 1
  /\ Len(entry) = 2
  /\ heap[arg.ref][1] # entry[1]
  /\ heap[arg.ref][2] # entry[2]

(* C13: with a deterministic objective, two calls whose vectors on entry
   have the same length and differ at most in coordinate 0 issue the same
   probes and return equal vectors; so a call on the vector of length 1
   that the call before returned returns an equal vector. *)
C13_Independent ==
  /\ (/\ pc = "return"
      /\ Deterministic(fn)
      /\ prev.valid
      /\ Len(prev.entry) = Len(entry)
      /\ \A j \in 2 .. Len(entry) : prev.entry[j] = entry[j])
       => (/\ heap[x] = prev.result
           /\ LogVecs = prev.probes)
  /\ (/\ pc = "return"
      /\ Deterministic(fn)
      /\ prev.valid
      /\ Len(entry) = 1
      /\ entry = prev.result)
       => heap[x] = entry

C13_Witness ==
  /\ pc = "return"
  /\ fn.kind = "sin"
  /\ prev.valid
  /\ Len(entry) = 2
  /\ prev.entry[1] # entry[1]
  /\ prev.entry[2] = entry[2]
  /\ heap[x] = prev.result
  /\ heap[x][1] # entry[1]
  /\ heap[x][1] # prev.entry[1]

(* C14: when the three probe values of coordinate d are equal, both
   arguments of arctan2 are 0, a is 0, and the sub-step stores exactly
   -pi/2 in x[d], without a wrap, whatever x[d] held on entry. *)
C14_Flat ==
  /\ [][(pc = "a" /\ H_0 = H_p /\ H_p = H_m)
          => (/\ VSub(VSub(VScale(2, H_0), H_p), H_m) = Zero
              /\ VSub(H_p, H_m) = Zero
              /\ arctan2(VSub(VSub(VScale(2, H_0), H_p), H_m), VSub(H_p, H_m)) = 0
              /\ RawUpdate(H_0, H_p, H_m) = -(PiU \div 2)
              /\ RawUpdate(H_0, H_p, H_m) > -PiU
              /\ heap'[x][d + 1] = -(PiU \div 2))]_vars
  /\ []((/\ pc \in {"return", "returned"}
         /\ fn.kind = "table"
         /\ fn.T[1] = fn.T[2]
         /\ fn.T[2] = fn.T[3])
          => heap[x] = <<-(PiU \div 2)>>)

C14_Witness ==
  /\ pc = "returned"
  /\ fn.kind = "table"
  /\ fn.T[1] = fn.T[2]
  /\ fn.T[2] = fn.T[3]
  /\ fn.T[1] # Zero
  /\ entry = <<PiU + (PiU \div 2)>>
  /\ heap[outcome.ref] = <<-(PiU \div 2)>>

(* --------------------------- claims: KerasLayer ----------------------- *)
NonDefaults(sig) == {sig[i].name : i \in {k \in 1 .. Len(sig) : ~sig[k].default}}
InputParams(sig) == {i \in 1 .. Len(sig) : sig[i].name \in InputNames}

(* C8: for a QNode with one input argument that is not in weight_shapes,
   the constructor raises 'Must specify a shape for every non-input
   parameter' if a non-input parameter has no shape, and raises nothing
   if weight_shapes names exactly the non-input parameters, whatever the
   input argument is called. *)
C8_WeightShapes ==
  (/\ kpc # "new"
   /\ Len(Defaults(qnode.sig)) = 1
   /\ Defaults(qnode.sig)[1] \notin DOMAIN kwargs.weight_shapes
   /\ ~qnode.var_pos
   /\ ~qnode.var_keyword)
    => (/\ (\E n \in NonDefaults(qnode.sig) : n \notin DOMAIN kwargs.weight_shapes)
              => (kpc = "init_failed" /\ kerr = ErrMustSpecify)
        /\ (DOMAIN kwargs.weight_shapes = NonDefaults(qnode.sig))
              => kpc # "init_failed")

(* C9: for a QNode with one input argument, at any place of the signature
   and with or without a default, and a shape for every weight, the layer
   is constructed and call binds every weight to the parameter of its
   name and every batch element to the input argument. *)
C9_Binding ==
  (/\ kpc # "new"
   /\ Cardinality(InputParams(qnode.sig)) = 1
   /\ \A i \in 1 .. Len(qnode.sig) :
        qnode.sig[i].name \in WeightNames => ~qnode.sig[i].default
   /\ DOMAIN kwargs.weight_shapes = SigNames(qnode.sig) \cap WeightNames
   /\ ~qnode.var_pos
   /\ ~qnode.var_keyword)
    => (/\ kpc \notin {"init_failed", "call_failed"}
        /\ kpc = "called"
             => \A b \in 1 .. Len(kout) : \A i \in 1 .. Len(qnode.sig) :
                  kout[b][i] =
                    IF qnode.sig[i].name \in InputNames
                    THEN BatchElem(b)
                    ELSE [kind |-> "weight", name |-> qnode.sig[i].name,
                          elem |-> ShapeTuple(kwargs.weight_shapes[qnode.sig[i].name]) = <<1>>,
                          idx |-> 0])

====
